---- MODULE Spec2Model ----
(***************************************************************************)
(* Model of go-dht-prometheus (main.go): the sampler goroutine             *)
(* recordMetrics, the five Prometheus gauges it sets, the HTTP server      *)
(* goroutine, and main's signal-driven shutdown.                           *)
(*                                                                         *)
(* Numbers.  Temperatures, humidities and retry counts are integers.  The  *)
(* float64 arithmetic of the vapor pressure deficit is done in fixed       *)
(* point: exp() in thousandths, pressures in tenths of a pascal.  Time is  *)
(* the wall clock in seconds, as time.Now().Unix() reads it; the model     *)
(* lets it advance TickSeconds at a time.                                  *)
(***************************************************************************)
EXTENDS Integers, FiniteSets, Sequences, TLC

\* ---------------------------------------------------------------- bounds

\* The clock advances TickSeconds at a time.
TickSeconds == 5

\* The clock stops at MaxTime in the model of the whole process, and at
\* SamplerMaxTime in the model of the sampler alone (which needs the time
\* of three rounds).
MaxTime == 20

SamplerMaxTime == 40

\* --interval, in seconds (opts.ReadSeconds; the default is 15s).
ReadSeconds == 15

\* --sensor-max-retries (opts.SensorMaxRetries; the default is 5).
SensorMaxRetries == 2

\* How many scrape requests the model lets arrive.
MaxRequests == 2

\* The warmest reading of the table of vapor pressure deficits, in degrees
\* Celsius (the coldest is -40, the sensor's range).
MaxTemperature == 80

\* The shutdown context's timeout, in seconds (10*time.Second).
ShutdownTimeout == 10

\* ------------------------------------------------------- sensor readings

\* What dht.ReadDHTxxWithRetry can return without an error:
\* <<temperature, humidity, retried>>.
GoodReadings == {<<23, 60, 1>>, <<30, 100, 0>>}

\* What it returns next to an error: the library gives -1, -1 and the
\* retries it used up.
FailedReadings == {<<-1, -1, SensorMaxRetries>>}

Requests == 1..MaxRequests

\* The readings the vapor pressure deficit is tabulated for.
Temperatures == (-40)..MaxTemperature

Humidities == 0..100

\* ------------------------------------------------- vapor pressure deficit

\* 17.27*T/(T+237.3), in thousandths.
Exponent(t) == (172700 * t) \div (10 * t + 2373)

RECURSIVE ExpSeries(_, _, _, _)
\* The sum of the series of exp(x) from term number n on, x >= 0 and term
\* in thousandths.
ExpSeries(x, n, term, stop) ==
    IF n > stop \/ term = 0 THEN 0
    ELSE term + ExpSeries(x, n + 1, (term * x) \div (1000 * (n + 1)), stop)

\* math.Exp, argument and result in thousandths.
Exp(x) ==
    IF x >= 0 THEN ExpSeries(x, 0, 1000, 30)
    ELSE 1000000 \div ExpSeries(-x, 0, 1000, 30)

\* es := 0.6108 * math.Exp(17.27*T/(T+237.3)), in tenths of a pascal.
SaturationPressure(t) == (6108 * Exp(Exponent(t))) \div 1000

\* ea := humidity64 / 100 * es
ActualPressure(t, h) == ((h * 10) * SaturationPressure(t)) \div 1000

\* The deficit without the change of sign.
VPDNegative(t, h) == ActualPressure(t, h) - SaturationPressure(t)

\* vpd := (ea - es) * -1
VPD(t, h) == (ActualPressure(t, h) - SaturationPressure(t)) * (-1)

\* ----------------------------------------------------------------- state

VARIABLES
    now,                         \* the wall clock, Unix seconds
    alive,                       \* the process has not exited
    exitCode,                    \* its exit status, once it has
    parseErr,                    \* flags.Parse returned an error
    pcMain,                      \* where main() is
    pcSampler,                   \* where recordMetrics() is
    pcServer,                    \* where the goroutine of line 116 is
    temperature, humidity, retried, err, vpd,   \* locals of recordMetrics
    last_measurement_time,       \* local of recordMetrics
    wake,                        \* when the time.Sleep of line 95 ends
    lastTemperatureGauge,
    lastHumidityGauge,
    lastVaporPressureDeficitGauge,
    last_successful_measurement_seconds,
    last_measurement_retries,
    listening,                   \* the server's listener is bound
    inShutdown,                  \* server.Shutdown has been called
    sigChan,                     \* signals buffered in sigChan (capacity 1)
    notified,                    \* signal.Notify has registered sigChan
    deadline,                    \* shutdownCtx's deadline
    request,                     \* each scrape request: none, inflight, served, aborted
    inflightAtSignal,            \* the requests in flight when main took the signal
    time_of_last_success,        \* when the last read without error was recorded
    written                      \* a round has made its last gauge write

gauges ==
    <<lastTemperatureGauge, lastHumidityGauge, lastVaporPressureDeficitGauge,
      last_successful_measurement_seconds, last_measurement_retries>>

locals == <<temperature, humidity, retried, err, vpd>>

timers == <<last_measurement_time, wake, time_of_last_success, written>>

mainVars == <<parseErr, pcMain, sigChan, notified, deadline, inflightAtSignal>>

serverVars == <<pcServer, listening, inShutdown>>

processVars == <<alive, exitCode, request>>

vars ==
    <<now, processVars, mainVars, serverVars, pcSampler, locals, timers, gauges>>

InFlight == {r \in Requests : request[r] = "inflight"}

Init ==
    /\ now = 0
    /\ alive = TRUE
    /\ exitCode = 0
    /\ parseErr = FALSE
    /\ pcMain = "l101"
    /\ pcSampler = "off"
    /\ pcServer = "off"
    /\ temperature = 0 /\ humidity = 0 /\ retried = 0 /\ err = FALSE /\ vpd = 0
    /\ last_measurement_time = 0
    /\ wake = 0
    /\ lastTemperatureGauge = 0
    /\ lastHumidityGauge = 0
    /\ lastVaporPressureDeficitGauge = 0
    /\ last_successful_measurement_seconds = 0
    /\ last_measurement_retries = 0
    /\ listening = FALSE
    /\ inShutdown = FALSE
    /\ sigChan = 0
    /\ notified = FALSE
    /\ deadline = 0
    /\ request = [r \in Requests |-> "none"]
    /\ inflightAtSignal = {}
    /\ time_of_last_success = 0
    /\ written = FALSE

\* ------------------------------------------------------------ the clock

\* The last value of a clock that stops at the horizon.
LastTick(horizon) == (horizon \div TickSeconds) * TickSeconds

\* Time passes, up to the horizon.
Tick(horizon) ==
    /\ alive
    /\ now + TickSeconds <= horizon
    /\ now' = now + TickSeconds
    /\ UNCHANGED <<processVars, mainVars, serverVars, pcSampler, locals,
                   timers, gauges>>

\* --------------------------------------------------------- process exit

\* os.Exit(code), log.Fatalf, or main returning: every goroutine stops and
\* the connections still open are cut.
Exit(code) ==
    /\ alive' = FALSE
    /\ exitCode' = code
    /\ request' = [r \in Requests |->
                     IF request[r] = "inflight" THEN "aborted" ELSE request[r]]

\* -------------------------------------------------------- recordMetrics

\* A sampler that marks the temperature as not yet read when it starts.
SamplerStartMarksUnread ==
    /\ alive /\ pcSampler = "l65"
    /\ last_measurement_time' = now
    /\ time_of_last_success' = now
    /\ lastTemperatureGauge' = -1
    /\ pcSampler' = "l67"
    /\ UNCHANGED <<now, processVars, mainVars, serverVars, locals, wake, written,
                   lastHumidityGauge, lastVaporPressureDeficitGauge,
                   last_successful_measurement_seconds,
                   last_measurement_retries>>

\* last_measurement_time := time.Now()
SamplerStart ==
    /\ alive /\ pcSampler = "l65"
    /\ last_measurement_time' = now
    /\ time_of_last_success' = now
    /\ pcSampler' = "l67"
    /\ UNCHANGED <<now, processVars, mainVars, serverVars, locals, wake, written,
                   gauges>>

\* temperature, humidity, retried, err := dht.ReadDHTxxWithRetry(...)
ReadSensor ==
    /\ alive /\ pcSampler = "l67"
    /\ \E failed \in BOOLEAN :
         \E reading \in IF failed THEN FailedReadings ELSE GoodReadings :
            /\ temperature' = reading[1]
            /\ humidity' = reading[2]
            /\ retried' = reading[3]
            /\ err' = failed
    /\ pcSampler' = "l73"
    /\ UNCHANGED <<now, processVars, mainVars, serverVars, vpd, timers, gauges>>

\* A sampler that gives up on a failed read.
AfterErrCheckStop(e) == IF e THEN "stopped" ELSE "l88"

\* A sampler that reads the sensor again at once when the read failed.
AfterErrCheckRetry(e) == IF e THEN "l67" ELSE "l88"

\* Where recordMetrics goes on after the test of err: the error is logged
\* and the round carries on as after a good read.
AfterErrCheck(e) == "l88"

\* if err != nil { log.Infof(...) }; es, ea, vpd; log.Infof(...)
Compute ==
    /\ alive /\ pcSampler = "l73"
    /\ vpd' = VPD(temperature, humidity)
    /\ pcSampler' = AfterErrCheck(err)
    /\ UNCHANGED <<now, processVars, mainVars, serverVars,
                   temperature, humidity, retried, err, timers, gauges>>

\* time.Now().Unix() - last_measurement_time.Unix()
SecondsSince(t, last) == t - last

\* A write that waits until no scrape is in flight and the server is not
\* shutting down.
SetSecondsWhenServerIdle ==
    /\ alive /\ pcSampler = "l88"
    /\ InFlight = {} /\ ~inShutdown
    /\ last_successful_measurement_seconds' =
          SecondsSince(now, last_measurement_time)
    /\ pcSampler' = "l89"
    /\ UNCHANGED <<now, processVars, mainVars, serverVars, locals, timers,
                   lastTemperatureGauge, lastHumidityGauge,
                   lastVaporPressureDeficitGauge, last_measurement_retries>>

\* last_successful_measurement_seconds.Set(...)
SetSeconds ==
    /\ alive /\ pcSampler = "l88"
    /\ last_successful_measurement_seconds' =
          SecondsSince(now, last_measurement_time)
    /\ pcSampler' = "l89"
    /\ UNCHANGED <<now, processVars, mainVars, serverVars, locals, timers,
                   lastTemperatureGauge, lastHumidityGauge,
                   lastVaporPressureDeficitGauge, last_measurement_retries>>

\* last_measurement_time = time.Now(), in every round; time_of_last_success
\* follows the rounds whose read returned no error.
SetMeasurementTime ==
    /\ alive /\ pcSampler = "l89"
    /\ last_measurement_time' = now
    /\ time_of_last_success' = IF err THEN time_of_last_success ELSE now
    /\ pcSampler' = "l90"
    /\ UNCHANGED <<now, processVars, mainVars, serverVars, locals, wake, written,
                   gauges>>

\* A store that is not atomic: the high part of the new value is in the cell
\* with the low part of the old one.
SetTemperatureTorn ==
    /\ alive /\ pcSampler = "l90"
    /\ lastTemperatureGauge' =
           (temperature \div 8) * 8 + (lastTemperatureGauge % 8)
    /\ pcSampler' = "l91"
    /\ UNCHANGED <<now, processVars, mainVars, serverVars, locals, timers,
                   lastHumidityGauge, lastVaporPressureDeficitGauge,
                   last_successful_measurement_seconds,
                   last_measurement_retries>>

\* lastTemperatureGauge.Set(float64(temperature)): Gauge.Set is one atomic
\* store of the whole value.
SetTemperature ==
    /\ alive /\ pcSampler = "l90"
    /\ lastTemperatureGauge' = temperature
    /\ pcSampler' = "l91"
    /\ UNCHANGED <<now, processVars, mainVars, serverVars, locals, timers,
                   lastHumidityGauge, lastVaporPressureDeficitGauge,
                   last_successful_measurement_seconds,
                   last_measurement_retries>>

\* Line 91 storing the temperature again.
SetHumidityFromTemperature ==
    /\ alive /\ pcSampler = "l91"
    /\ lastHumidityGauge' = temperature
    /\ pcSampler' = "l92"
    /\ UNCHANGED <<now, processVars, mainVars, serverVars, locals, timers,
                   lastTemperatureGauge, lastVaporPressureDeficitGauge,
                   last_successful_measurement_seconds,
                   last_measurement_retries>>

\* lastHumidityGauge.Set(float64(humidity))
SetHumidity ==
    /\ alive /\ pcSampler = "l91"
    /\ lastHumidityGauge' = humidity
    /\ pcSampler' = "l92"
    /\ UNCHANGED <<now, processVars, mainVars, serverVars, locals, timers,
                   lastTemperatureGauge, lastVaporPressureDeficitGauge,
                   last_successful_measurement_seconds,
                   last_measurement_retries>>

\* last_measurement_retries.Set(float64(retried))
SetRetries ==
    /\ alive /\ pcSampler = "l92"
    /\ last_measurement_retries' = retried
    /\ pcSampler' = "l93"
    /\ UNCHANGED <<now, processVars, mainVars, serverVars, locals, timers,
                   lastTemperatureGauge, lastHumidityGauge,
                   lastVaporPressureDeficitGauge,
                   last_successful_measurement_seconds>>

\* lastVaporPressureDeficitGauge.Set(vpd)
SetVaporPressureDeficit ==
    /\ alive /\ pcSampler = "l93"
    /\ lastVaporPressureDeficitGauge' = vpd
    /\ pcSampler' = "l95"
    /\ written' = TRUE
    /\ UNCHANGED <<now, processVars, mainVars, serverVars, locals,
                   last_measurement_time, wake, time_of_last_success,
                   lastTemperatureGauge, lastHumidityGauge,
                   last_successful_measurement_seconds,
                   last_measurement_retries>>

\* time.Sleep(opts.ReadSeconds): the goroutine is parked until the clock
\* reaches wake.
Sleep ==
    /\ alive /\ pcSampler = "l95"
    /\ wake' = now + ReadSeconds
    /\ pcSampler' = "sleeping"
    /\ UNCHANGED <<now, processVars, mainVars, serverVars, locals,
                   last_measurement_time, time_of_last_success, written,
                   gauges>>

\* time.Sleep returns and the for loop starts its next round.
WakeUp ==
    /\ alive /\ pcSampler = "sleeping"
    /\ now >= wake
    /\ wake' = 0
    /\ pcSampler' = "l67"
    /\ UNCHANGED <<now, processVars, mainVars, serverVars, locals,
                   last_measurement_time, time_of_last_success, written,
                   gauges>>

Sampler ==
    \/ SamplerStart
    \/ ReadSensor
    \/ Compute
    \/ SetSeconds
    \/ SetMeasurementTime
    \/ SetTemperature
    \/ SetHumidity
    \/ SetRetries
    \/ SetVaporPressureDeficit
    \/ Sleep
    \/ WakeUp

\* ----------------------------------------------------------------- main

\* A main that goes on after flags.Parse has failed.
ParseFailedGoesOn ==
    /\ parseErr' = TRUE
    /\ pcMain' = "l113"
    /\ UNCHANGED <<processVars, pcSampler, pcServer>>

\* What main does when flags.Parse fails: os.Exit(1).
ParseFailed ==
    /\ parseErr' = TRUE
    /\ Exit(1)
    /\ UNCHANGED <<pcMain, pcSampler, pcServer>>

\* if _, err := flags.Parse(&opts); err != nil { os.Exit(1) }
Parse ==
    /\ alive /\ pcMain = "l101"
    /\ \/ ParseFailed
       \/ /\ pcMain' = "l113"
          /\ UNCHANGED <<parseErr, processVars, pcSampler, pcServer>>
    /\ UNCHANGED <<now, sigChan, notified, deadline, inflightAtSignal,
                   listening, inShutdown, locals, timers, gauges>>

\* go recordMetrics(); http.Handle("/metrics", promhttp.Handler())
GoRecordMetrics ==
    /\ alive /\ pcMain = "l113"
    /\ pcSampler' = "l65"
    /\ pcMain' = "l116"
    /\ UNCHANGED <<now, processVars, parseErr, sigChan, notified, deadline,
                   inflightAtSignal, serverVars, locals, timers, gauges>>

\* go func() { ... server.ListenAndServe() ... }()
GoServe ==
    /\ alive /\ pcMain = "l116"
    /\ pcServer' = "l118"
    /\ pcMain' = "l125"
    /\ UNCHANGED <<now, processVars, parseErr, sigChan, notified, deadline,
                   inflightAtSignal, listening, inShutdown, pcSampler, locals,
                   timers, gauges>>

\* sigChan := make(chan os.Signal, 1); signal.Notify(sigChan, SIGINT, SIGTERM)
Notify ==
    /\ alive /\ pcMain = "l125"
    /\ notified' = TRUE
    /\ pcMain' = "l126"
    /\ UNCHANGED <<now, processVars, parseErr, sigChan, deadline,
                   inflightAtSignal, serverVars, pcSampler, locals, timers,
                   gauges>>

\* SIGINT or SIGTERM arrives once signal.Notify has registered sigChan: it
\* is put into the channel, or dropped when the channel is full.  (Before
\* line 125 the Go runtime, not this program, handles the signal.)
Signal ==
    /\ alive /\ notified
    /\ sigChan = 0
    /\ sigChan' = 1
    /\ UNCHANGED <<now, processVars, parseErr, pcMain, notified, deadline,
                   inflightAtSignal, serverVars, pcSampler, locals, timers,
                   gauges>>

\* A main that does not wait for a signal.
ReceiveNoSignal ==
    /\ alive /\ pcMain = "l126"
    /\ inflightAtSignal' = InFlight
    /\ pcMain' = "l128"
    /\ UNCHANGED <<now, processVars, parseErr, sigChan, notified, deadline,
                   serverVars, pcSampler, locals, timers, gauges>>

\* <-sigChan
ReceiveSignal ==
    /\ alive /\ pcMain = "l126"
    /\ sigChan = 1
    /\ sigChan' = 0
    /\ inflightAtSignal' = InFlight
    /\ pcMain' = "l128"
    /\ UNCHANGED <<now, processVars, parseErr, notified, deadline, serverVars,
                   pcSampler, locals, timers, gauges>>

\* shutdownCtx, shutdownRelease := context.WithTimeout(..., 10*time.Second)
WithTimeout ==
    /\ alive /\ pcMain = "l128"
    /\ deadline' = now + ShutdownTimeout
    /\ pcMain' = "l131"
    /\ UNCHANGED <<now, processVars, parseErr, sigChan, notified,
                   inflightAtSignal, serverVars, pcSampler, locals, timers,
                   gauges>>

\* server.Shutdown(shutdownCtx) is called: the listener is closed.
ShutdownBegin ==
    /\ alive /\ pcMain = "l131"
    /\ inShutdown' = TRUE
    /\ pcMain' = "shutdown"
    /\ UNCHANGED <<now, processVars, parseErr, sigChan, notified, deadline,
                   inflightAtSignal, pcServer, listening, pcSampler, locals,
                   timers, gauges>>

\* A Shutdown that does not wait for the requests in flight.
DrainedAtOnce == TRUE

\* A Shutdown whose context never expires.
TimedOutNever == FALSE

\* Whether server.Shutdown returns nil: no connection is serving a request.
Drained == InFlight = {}

\* Whether server.Shutdown gives up with the context's error.
TimedOut == InFlight # {} /\ now >= deadline

\* server.Shutdown returns nil and main returns (exit status 0), or it
\* returns the context's error and log.Fatalf ends the process.
ShutdownEnd ==
    /\ alive /\ pcMain = "shutdown"
    /\ \/ Drained /\ Exit(0)
       \/ TimedOut /\ Exit(1)
    /\ UNCHANGED <<now, mainVars, serverVars, pcSampler, locals, timers, gauges>>

Main ==
    \/ Parse
    \/ GoRecordMetrics
    \/ GoServe
    \/ Notify
    \/ ReceiveSignal
    \/ WithTimeout
    \/ ShutdownBegin
    \/ ShutdownEnd

\* ---------------------------------------------------- the HTTP server

\* A failure to bind that is logged and nothing more.
BindFailedLogsOnly ==
    /\ pcServer' = "l119"
    /\ UNCHANGED <<listening, processVars>>

\* ListenAndServe returns an error other than http.ErrServerClosed:
\* log.Fatalf("HTTP server error: %v", err) ends the process.
BindFailed ==
    /\ pcServer' = "l119"
    /\ Exit(1)
    /\ UNCHANGED listening

\* server.ListenAndServe() binds the listener and serves, or fails to bind
\* and log.Fatalf ends the process; after Shutdown it returns
\* http.ErrServerClosed at once.
ListenAndServe ==
    /\ alive /\ pcServer = "l118"
    /\ \/ /\ inShutdown
          /\ pcServer' = "l121"
          /\ UNCHANGED <<listening, processVars>>
       \/ /\ ~inShutdown
          /\ listening' = TRUE
          /\ pcServer' = "serving"
          /\ UNCHANGED processVars
       \/ /\ ~inShutdown
          /\ BindFailed
    /\ UNCHANGED <<now, mainVars, inShutdown, pcSampler, locals, timers, gauges>>

\* ListenAndServe returns http.ErrServerClosed once Shutdown has closed the
\* listener.
ServerClosed ==
    /\ alive /\ pcServer = "serving"
    /\ inShutdown
    /\ pcServer' = "l121"
    /\ UNCHANGED <<now, processVars, mainVars, listening, inShutdown,
                   pcSampler, locals, timers, gauges>>

\* log.Infof("Stopped serving new connections.")
ServerStopped ==
    /\ alive /\ pcServer = "l121"
    /\ pcServer' = "done"
    /\ UNCHANGED <<now, processVars, mainVars, listening, inShutdown,
                   pcSampler, locals, timers, gauges>>

\* Whether the listener takes a new connection.
Accepting == listening /\ ~inShutdown

\* A scrape request arrives on a new connection.
Accept(r) ==
    /\ alive /\ Accepting
    /\ request[r] = "none"
    /\ request' = [request EXCEPT ![r] = "inflight"]
    /\ UNCHANGED <<now, alive, exitCode, mainVars, serverVars, pcSampler,
                   locals, timers, gauges>>

\* What a scrape served now shows: promhttp.Handler() gathers the
\* registered gauges.
Scrape ==
    [last_temperature |-> lastTemperatureGauge,
     last_humidity |-> lastHumidityGauge,
     last_vapor_pressure_deficit |-> lastVaporPressureDeficitGauge,
     last_successful_measurement_seconds |-> last_successful_measurement_seconds,
     last_measurement_retries |-> last_measurement_retries]

\* A handler that resets a gauge once it has reported it.
ServeAndReset(r) ==
    /\ alive /\ request[r] = "inflight"
    /\ request' = [request EXCEPT ![r] = "served"]
    /\ last_measurement_retries' = 0
    /\ UNCHANGED <<now, alive, exitCode, mainVars, serverVars, pcSampler,
                   locals, timers, lastTemperatureGauge, lastHumidityGauge,
                   lastVaporPressureDeficitGauge,
                   last_successful_measurement_seconds>>

\* The handler writes the response of request r.
Serve(r) ==
    /\ alive
    /\ request[r] = "inflight"
    /\ request' = [request EXCEPT ![r] = "served"]
    /\ UNCHANGED <<now, alive, exitCode, mainVars, serverVars, pcSampler,
                   locals, timers, gauges>>

Server ==
    \/ ListenAndServe
    \/ ServerClosed
    \/ ServerStopped
    \/ \E r \in Requests : Accept(r)
    \/ \E r \in Requests : Serve(r)

\* ------------------------------------------------------- specification

\* The whole process.
Next == Tick(MaxTime) \/ Sampler \/ Main \/ Server \/ Signal

Spec == Init /\ [][Next]_vars

\* The sampler alone: main starts it and is not scheduled again.
SamplerNext == Tick(SamplerMaxTime) \/ Parse \/ GoRecordMetrics \/ Sampler

SamplerSpec == Init /\ [][SamplerNext]_vars

\* The process when no scrape request arrives.
QuietNext ==
    \/ Tick(MaxTime)
    \/ Sampler
    \/ Main
    \/ ListenAndServe
    \/ ServerClosed
    \/ ServerStopped
    \/ Signal

QuietSpec == Init /\ [][QuietNext]_vars

\* The same under a fair scheduler and a clock that goes on; no signal need
\* ever arrive.
QuietFairSpec ==
    QuietSpec /\ WF_vars(Sampler) /\ WF_vars(Tick(MaxTime))

\* The process when the sampler, once started, is not scheduled.
LifecycleNext == Tick(MaxTime) \/ Main \/ Server \/ Signal

LifecycleSpec == Init /\ [][LifecycleNext]_vars

\* The same when main is scheduled fairly and the clock goes on; no request
\* need ever be answered.
LifecycleFairSpec ==
    LifecycleSpec /\ WF_vars(Main) /\ WF_vars(Tick(MaxTime))

\* One round of the sampler on every reading of the table: the sensor has
\* just returned it, without an error.
VpdInit ==
    /\ now = 0
    /\ alive = TRUE
    /\ exitCode = 0
    /\ parseErr = FALSE
    /\ pcMain = "l116"
    /\ pcSampler = "l73"
    /\ pcServer = "off"
    /\ temperature \in Temperatures
    /\ humidity \in Humidities
    /\ retried = 0 /\ err = FALSE /\ vpd = 0
    /\ last_measurement_time = 0
    /\ wake = 0
    /\ lastTemperatureGauge = 0
    /\ lastHumidityGauge = 0
    /\ lastVaporPressureDeficitGauge = 0
    /\ last_successful_measurement_seconds = 0
    /\ last_measurement_retries = 0
    /\ listening = FALSE
    /\ inShutdown = FALSE
    /\ sigChan = 0
    /\ notified = FALSE
    /\ deadline = 0
    /\ request = [r \in Requests |-> "none"]
    /\ inflightAtSignal = {}
    /\ time_of_last_success = 0
    /\ written = FALSE

VpdNext ==
    \/ Compute
    \/ SetSeconds
    \/ SetMeasurementTime
    \/ SetTemperature
    \/ SetHumidity
    \/ SetRetries
    \/ SetVaporPressureDeficit

VpdSpec == VpdInit /\ [][VpdNext]_vars

\* ---------------------------------------------------------------- claims

\* The positions of a round at which its gauge writes are still to come or
\* under way.
Writing == {"l88", "l89", "l90", "l91", "l92", "l93"}

\* The positions at which the last round's writes are done and the next
\* round has not read the sensor yet.
Published == {"l95", "sleeping", "l67"}

\* C1: a round whose sensor read failed leaves the temperature, humidity,
\* retries and vapor pressure deficit gauges as they were before the round.
C1_FailedReadKeepsGauges ==
    [][(err /\ pcSampler \in Writing) =>
          UNCHANGED <<lastTemperatureGauge, lastHumidityGauge,
                      last_measurement_retries,
                      lastVaporPressureDeficitGauge>>]_vars

\* C2: after the writes of a round whose read succeeded with (T, H, R), and
\* until the next round reads the sensor, a scrape shows last_temperature =
\* T, last_humidity = H and last_measurement_retries = R.
C2_SuccessPublished ==
    (pcSampler \in Published /\ ~err) =>
        /\ Scrape.last_temperature = temperature
        /\ Scrape.last_humidity = humidity
        /\ Scrape.last_measurement_retries = retried

\* A successful round has published the reading (23, 60, 1).
C2_Witness ==
    /\ pcSampler = "sleeping" /\ ~err
    /\ temperature = 23 /\ retried = 1
    /\ Scrape.last_temperature = 23
    /\ Scrape.last_humidity = 60
    /\ Scrape.last_measurement_retries = 1

\* C3: a round whose read succeeded writes to
\* last_successful_measurement_seconds the time elapsed since the previous
\* successful round (since the sampler's start when there is none), failed
\* rounds in between included.
C3_ElapsedSinceLastSuccess ==
    [][(pcSampler = "l88" /\ pcSampler' = "l89" /\ ~err) =>
          last_successful_measurement_seconds' = now - time_of_last_success]_vars

\* C4: a round whose read failed never lowers
\* last_successful_measurement_seconds.
C4_FailedRoundNeverLowers ==
    [][(pcSampler = "l88" /\ pcSampler' = "l89" /\ err) =>
          last_successful_measurement_seconds' >=
              last_successful_measurement_seconds]_vars

\* C5: for a reading with 0 <= humidity <= 100 the published vapor pressure
\* deficit is es - ea with es > 0, it is >= 0, and it is 0 at humidity 100.
C5_DeficitNonNegative ==
    (pcSampler = "l95" /\ ~err /\ humidity >= 0 /\ humidity <= 100) =>
        /\ SaturationPressure(temperature) > 0
        /\ Scrape.last_vapor_pressure_deficit =
              SaturationPressure(temperature)
                  - ActualPressure(temperature, humidity)
        /\ Scrape.last_vapor_pressure_deficit >= 0
        /\ (humidity = 100 => Scrape.last_vapor_pressure_deficit = 0)

\* The deficit of a saturated reading has been published.
C5_Witness ==
    /\ pcSampler = "l95" /\ ~err
    /\ temperature = 25 /\ humidity = 100
    /\ lastVaporPressureDeficitGauge = 0

\* C6: while the process lives, every round, of a failed read too, comes
\* to its sleep, and the sleep (when it ends within the horizon of the
\* clock) to the next read of the sensor.
C6_RoundFollowedByRound ==
    /\ (pcSampler = "l73") ~> (pcSampler = "sleeping" \/ ~alive)
    /\ (pcSampler = "sleeping" /\ wake <= LastTick(MaxTime))
          ~> (pcSampler = "l73" \/ ~alive)

\* A round whose read failed has published, and the sensor has been read
\* again.
C6_Witness ==
    /\ pcSampler = "l73"
    /\ lastTemperatureGauge = -1
    /\ last_measurement_retries = SensorMaxRetries

\* The state of the process lifecycle.
Lifecycle ==
    IF ~alive THEN "Stopped"
    ELSE IF pcMain \in {"l128", "l131", "shutdown"} THEN "ShuttingDown"
    ELSE IF listening THEN "Running"
    ELSE "Starting"

Rank(state) ==
    CASE state = "Starting" -> 0
      [] state = "Running" -> 1
      [] state = "ShuttingDown" -> 2
      [] state = "Stopped" -> 3

\* C7: when the signal is taken while scrape requests are in flight, no new
\* connection is accepted once Shutdown has been called, a request in
\* flight is cut only when the deadline of the shutdown context has passed,
\* and when every request has been answered the exit status is 0.
C7_GracefulShutdown ==
    [][/\ (inShutdown =>
              \A r \in Requests : request[r] = "none" => request'[r] = "none")
       /\ ((alive /\ ~alive' /\ inflightAtSignal # {}) =>
              /\ pcMain = "shutdown"
              /\ \A r \in Requests :
                    request'[r] = "aborted" => now >= deadline
              /\ ((\A r \in Requests : request'[r] # "aborted") =>
                     exitCode' = 0))]_vars

\* The process has exited with status 0 after answering the requests that
\* were in flight when the signal was taken.
C7_Witness ==
    /\ ~alive /\ exitCode = 0 /\ pcMain = "shutdown"
    /\ inflightAtSignal # {}
    /\ \A r \in inflightAtSignal : request[r] = "served"

\* C8 as stated: the lifecycle never goes back, and ShuttingDown is entered
\* from Running only, by taking a signal.
C8_OnlyFromRunning ==
    [][/\ Rank(Lifecycle') >= Rank(Lifecycle)
       /\ ((Lifecycle' = "ShuttingDown" /\ Lifecycle # "ShuttingDown") =>
              /\ Lifecycle = "Running"
              /\ sigChan = 1 /\ sigChan' = 0)]_vars

\* C8 as amended: the lifecycle never goes back, and ShuttingDown is
\* entered from Starting or Running, by taking a signal.
C8_OnlyBySignal ==
    [][/\ Rank(Lifecycle') >= Rank(Lifecycle)
       /\ ((Lifecycle' = "ShuttingDown" /\ Lifecycle # "ShuttingDown") =>
              /\ Lifecycle \in {"Starting", "Running"}
              /\ sigChan = 1 /\ sigChan' = 0)]_vars

\* The signal has been taken before the listener was bound.
C8_Witness ==
    /\ Lifecycle = "ShuttingDown"
    /\ ~listening /\ pcServer = "l118"

\* C9: once main has a signal to take it comes to wait in Shutdown or the
\* process ends, and a Shutdown whose deadline is within the horizon of the
\* clock ends the process, whether the requests in flight finish or not.
C9_SignalLeadsToStopped ==
    /\ (pcMain = "l126" /\ sigChan = 1) ~> (pcMain = "shutdown" \/ ~alive)
    /\ (pcMain = "shutdown" /\ deadline <= LastTick(MaxTime)) ~> ~alive

\* The grace period has run out on a request that never finished.
C9_Witness ==
    /\ ~alive /\ pcMain = "shutdown"
    /\ now >= deadline
    /\ \E r \in Requests : request[r] = "aborted"

\* C10: when flags.Parse fails the process has exited with a status other
\* than 0, the sampler was never started, no gauge was written and the
\* server was never started.
C10_ParseFailureStartsNothing ==
    parseErr =>
        /\ ~alive /\ exitCode # 0
        /\ pcSampler = "off"
        /\ pcServer = "off" /\ ~listening
        /\ gauges = <<0, 0, 0, 0, 0>>

\* flags.Parse has failed.
C10_Witness == parseErr /\ ~alive /\ exitCode = 1 /\ pcMain = "l101"

\* C11: when ListenAndServe fails to bind, the process has ended with a
\* status other than 0, whether or not a signal has come and with the
\* sampler already started; and a process that ended with status 0 ended by
\* main's return from a Shutdown that cut no request.
C11_BindFailureIsFatal ==
    /\ pcServer = "l119" =>
          /\ ~alive /\ exitCode # 0
          /\ pcSampler # "off"
    /\ (~alive /\ exitCode = 0) =>
          /\ pcMain = "shutdown" /\ inShutdown
          /\ pcServer # "l119" /\ ~parseErr
          /\ \A r \in Requests : request[r] # "aborted"

\* The listener failed to bind while main was waiting for a signal that had
\* not come, and the sampler was in a round.
C11_Witness ==
    /\ pcServer = "l119" /\ ~alive /\ exitCode = 1
    /\ pcMain = "l126" /\ sigChan = 0
    /\ pcSampler \in {"l73", "l88", "l89", "l90", "l91", "l92", "l93"}

\* C12: whatever scrapes are in flight, a step that changes a gauge puts into
\* it, whole, the value its Set was called with, so that a gauge only ever
\* holds its initial value or a value of a completed write.
C12_WholeValues ==
    [][/\ lastTemperatureGauge' # lastTemperatureGauge =>
             pcSampler = "l90" /\ lastTemperatureGauge' = temperature
       /\ lastHumidityGauge' # lastHumidityGauge =>
             pcSampler = "l91" /\ lastHumidityGauge' = humidity
       /\ last_measurement_retries' # last_measurement_retries =>
             pcSampler = "l92" /\ last_measurement_retries' = retried
       /\ lastVaporPressureDeficitGauge' # lastVaporPressureDeficitGauge =>
             pcSampler = "l93" /\ lastVaporPressureDeficitGauge' = vpd
       /\ last_successful_measurement_seconds'
             # last_successful_measurement_seconds =>
             /\ pcSampler = "l88"
             /\ last_successful_measurement_seconds'
                   = SecondsSince(now, last_measurement_time)]_vars

\* A scrape in flight between two writes of a round: the temperature is
\* this round's, the humidity still the round before's.
C12_Witness ==
    /\ InFlight # {}
    /\ pcSampler = "l91"
    /\ Scrape.last_temperature = 30
    /\ Scrape.last_humidity = 60

\* C13: a step that changes any gauge is a write step of the sampler's round
\* and nothing else: it moves recordMetrics on from one of lines 88 to 93
\* and leaves main, the server, the requests and the process as they were.
\* So no scrape, no signal and no step of the shutdown changes a gauge.
C13_SamplerOnlyWriter ==
    [][gauges' # gauges =>
          /\ pcSampler \in {"l88", "l90", "l91", "l92", "l93"}
          /\ pcSampler' # pcSampler
          /\ UNCHANGED <<processVars, mainVars, serverVars>>]_vars

\* Scrapes were served, the signal was taken and Shutdown has run to its
\* end, and the gauges hold the reading of the sampler's round.
C13_Witness ==
    /\ ~alive /\ pcMain = "shutdown" /\ exitCode = 0
    /\ \A r \in Requests : request[r] = "served"
    /\ Scrape.last_temperature = 23
    /\ Scrape.last_humidity = 60
    /\ Scrape.last_measurement_retries = 1

\* C14: a round reads the sensor once: the read of line 67 is reached only
\* from the start of recordMetrics or from the end of the sleep, never from
\* later in the same round, whether its read failed or not; the sleep ends
\* no earlier than it was set to; and every read after the first round is
\* at least ReadSeconds later than the time the round before recorded after
\* its own read.
C14_OneReadThenSleep ==
    [][/\ (pcSampler' = "l67" /\ pcSampler # "l67") =>
             pcSampler \in {"l65", "sleeping"}
       /\ (pcSampler = "sleeping" /\ pcSampler' = "l67") => now >= wake
       /\ (pcSampler = "l67" /\ pcSampler' = "l73" /\ written) =>
             now >= last_measurement_time + ReadSeconds]_vars

\* The sensor has been read again after a round whose read failed, the
\* sample interval later.
C14_Witness ==
    /\ pcSampler = "l73" /\ written
    /\ Scrape.last_temperature = -1
    /\ now >= last_measurement_time + ReadSeconds

\* C15: while the process lives, a scrape in flight can be served whatever
\* the sampler is doing, and the sampler can take its next step (a sleep
\* that is over included) whatever requests are in flight and whether or not
\* the signal was taken and Shutdown is running.
C15_NeitherWaits ==
    /\ \A r \in Requests :
          (alive /\ request[r] = "inflight") => ENABLED Serve(r)
    /\ (alive /\ pcSampler \in {"l65", "l67", "l73", "l95"} \cup Writing) =>
          ENABLED Sampler
    /\ (alive /\ pcSampler = "sleeping" /\ now >= wake) => ENABLED Sampler

\* The sampler is in the middle of its first round's writes while Shutdown
\* is waiting for a scrape in flight, and another scrape was served.
C15_Witness ==
    /\ Lifecycle = "ShuttingDown" /\ inShutdown
    /\ InFlight # {}
    /\ \E r \in Requests : request[r] = "served"
    /\ pcSampler = "l92" /\ ~written

\* The order in which a round writes the gauges, as the line of each Set.
SetLine ==
    [last_successful_measurement_seconds |-> 88,
     last_temperature |-> 90,
     last_humidity |-> 91,
     last_measurement_retries |-> 92,
     last_vapor_pressure_deficit |-> 93]

\* The line recordMetrics is at, for where it is in its round.
LineOf(pc) ==
    CASE pc \in {"off", "l65", "l67", "l73"} -> 0
      [] pc = "l88" -> 88
      [] pc = "l89" -> 89
      [] pc = "l90" -> 90
      [] pc = "l91" -> 91
      [] pc = "l92" -> 92
      [] pc = "l93" -> 93
      [] OTHER -> 95

\* Some round has written gauge g.
Written(g) == written \/ LineOf(pcSampler) > SetLine[g]

\* The gauges that some round has written.
WrittenGauges == {g \in DOMAIN SetLine : Written(g)}

\* C16: a gauge that no round has written yet is reported as 0, so a scrape
\* served before the first write of the sampler reports 0 for every gauge;
\* and a gauge that has been written stays written in every step.
C16_UnwrittenIsZero ==
    [][\A g \in DOMAIN SetLine :
          /\ ~Written(g) => Scrape[g] = 0
          /\ Written(g) => Written(g)']_vars

\* A scrape was served while the sampler, with its first reading in hand,
\* had written no gauge: every gauge it could report was 0.
C16_Witness ==
    /\ \E r \in Requests : request[r] = "served"
    /\ pcSampler = "l88" /\ temperature = 23
    /\ WrittenGauges = {}
    /\ \A g \in DOMAIN SetLine : Scrape[g] = 0

====
